---- MODULE Spec2Model ----
(***************************************************************************)
(* State-machine model of the Modern Minds screens and of their animated   *)
(* characters (MascotCharacter, PaxtonCharacter).                          *)
(*                                                                         *)
(* Conventions                                                             *)
(*  - A handler (an onPress callback, a timer callback, a React effect     *)
(*    together with the cleanup React runs before it) is one atomic        *)
(*    action: JavaScript runs it to completion.                            *)
(*  - Animated values are integers in tenths of the source unit            *)
(*    (1 -> 10, 0.1 -> 1, -5 -> -50).                                       *)
(*  - A shared value is a record [val, anim]: the value it currently has   *)
(*    and the animation running on it.  Durations and easings are          *)
(*    abstracted: a frame action takes a finite animation to its last      *)
(*    target and a repeating animation to one of its targets.              *)
(***************************************************************************)
EXTENDS Integers, Sequences, FiniteSets, TLC

\* ------------------------------------------------------------------ bounds
\* Most pending setTimeout callbacks one character instance may hold.
MaxTimers == 6
\* Most taps on the home-screen mascot that are counted.
MaxTaps == 5

\* ------------------------------------------------- react-native-reanimated
NoAnim == [kind |-> "none", targets |-> <<>>]

withTiming(toValue) == [kind |-> "finite", targets |-> <<toValue>>]

\* withDelay(ms, animation): the same targets, later.
withDelay(animation) == animation

RECURSIVE ConcatTargets(_)
ConcatTargets(animations) ==
    IF animations = <<>> THEN <<>>
    ELSE Head(animations).targets \o ConcatTargets(Tail(animations))

withSequence(animations) ==
    [kind |-> "finite", targets |-> ConcatTargets(animations)]

\* withRepeat(animation, -1, true): infinitely many repetitions.
withRepeat(animation) == [kind |-> "repeat", targets |-> animation.targets]

\* useSharedValue(initial)
useSharedValue(initial) == [val |-> initial, anim |-> NoAnim]

\* sv.value = animation: the animation replaces whatever was running and
\* starts from the current value.
SetAnimation(sv, animation) == [val |-> sv.val, anim |-> animation]

\* sv.value = number: the number is stored and a running animation ends.
SetValue(sv, number) == [val |-> number, anim |-> NoAnim]

\* cancelAnimation(sv): the value stays where the animation had brought it.
cancelAnimation(sv) == [val |-> sv.val, anim |-> NoAnim]

Running(sv) == sv.anim.kind # "none"
Repeating(sv) == sv.anim.kind = "repeat"

Range(s) == {s[k] : k \in 1..Len(s)}

\* One step of the animation engine on a shared value with a running
\* animation.  A finite animation runs to its last target and ends; a
\* repeating animation reaches one of its targets (parameter pick) and
\* goes on.
FrameOf(sv, pick) ==
    IF sv.anim.kind = "finite"
    THEN [val |-> sv.anim.targets[Len(sv.anim.targets)], anim |-> NoAnim]
    ELSE [val |-> pick, anim |-> sv.anim]

FramePicks(sv) ==
    IF sv.anim.kind = "finite" THEN {sv.anim.targets[Len(sv.anim.targets)]}
    ELSE Range(sv.anim.targets)

\* ------------------------------------------------------------------- moods
Moods == <<"happy", "thinking", "excited", "meditating">>
MoodSet == Range(Moods)
Undefined == "undefined"

\* ---------------------------------------------------------- MascotCharacter
MascotInstances == {1, 2}

MascotValues == {"bodyBounce", "eyeBlink", "wingFlap", "headTilt",
                 "floatY", "floatingElement1Y", "floatingElement2Y"}

VARIABLES
    mascot,          \* per MascotCharacter instance: life, mood, timers, sv
    mascotMounted,   \* isComponentMounted.current, per useRef cell
    homeMood,        \* HomeScreen: mascotMood
    homeTaps,        \* HomeScreen: number of changeMascotMood calls so far
    decisions,       \* DecisionsScreen: its useState cells
    wisdom,          \* WisdomScreen: its useState cells
    paxton,          \* the PaxtonCharacter instance
    moduleData,      \* the module-level sample data objects
    habitsScreen,    \* HabitsScreen: its useState cells
    profileScreen,   \* ProfileScreen: its useState cells
    everToggled      \* history: a toggle handler has run

homeVars == <<homeMood, homeTaps>>
characterVars == <<mascot, mascotMounted, paxton>>
dataVars == <<moduleData, habitsScreen, profileScreen, everToggled>>

\* What the actions of one component leave unchanged.
mascotFrame == <<homeMood, homeTaps, decisions, wisdom, paxton, dataVars>>
homeFrame == <<decisions, wisdom, paxton, dataVars>>
decisionsFrame ==
    <<mascot, mascotMounted, homeMood, homeTaps, wisdom, paxton, dataVars>>
paxtonFrame ==
    <<mascot, mascotMounted, homeMood, homeTaps, decisions, wisdom, dataVars>>
wisdomFrame == <<homeMood, homeTaps, decisions, paxton, dataVars>>
dataFrame == <<characterVars, homeVars, decisions, wisdom>>
vars == <<mascot, mascotMounted, homeMood, homeTaps, decisions, wisdom, paxton,
          moduleData, habitsScreen, profileScreen, everToggled>>

\* One isComponentMounted cell for all instances, as a module-level
\* variable would be.
MountedRefShared(i) == 1

\* The useRef cell that holds instance i's isComponentMounted.
MountedRef(i) == i

\* The mood parameter with its default value.
MoodParam(prop) == IF prop = Undefined THEN "happy" ELSE prop

\* State of an instance after its first render: the hooks have run, the
\* effect has not.
MascotFresh ==
    [life   |-> "fresh",
     prop   |-> Undefined,
     mood   |-> "happy",
     timers |-> 0,
     sv     |-> [n \in MascotValues |->
                    IF n = "eyeBlink" THEN useSharedValue(10)
                    ELSE useSharedValue(0)]]

\* A blinkEyes that does not look at the mounted flag.
blinkEyesUnguarded(s, isMounted) ==
    [s EXCEPT
        !.sv["eyeBlink"] = SetAnimation(@,
            withSequence(<<withTiming(1), withTiming(10),
                           withTiming(1), withTiming(10)>>)),
        !.timers = @ + 1]

\* blinkEyes(): returns at once when the component is not mounted, else
\* starts the blink sequence and schedules itself again.
blinkEyes(s, isMounted) ==
    IF ~isMounted THEN s
    ELSE [s EXCEPT
            !.sv["eyeBlink"] = SetAnimation(@,
                withSequence(<<withTiming(1), withTiming(10),
                               withTiming(1), withTiming(10)>>)),
            !.timers = @ + 1]

UpDown(peak) == withRepeat(withSequence(<<withTiming(peak), withTiming(0)>>))

\* The wing-flap branch of the effect.
WingFlapFor(sv, mood) ==
    IF mood = "excited" THEN SetAnimation(sv, UpDown(-150))
    ELSE IF mood = "thinking" THEN SetAnimation(sv, UpDown(-50))
    ELSE sv

\* The head-tilt branch of the effect.
HeadTiltFor(sv, mood) ==
    IF mood = "thinking" THEN SetAnimation(sv, UpDown(100))
    ELSE IF mood = "meditating" THEN SetValue(sv, 0)
    ELSE sv

\* The float branch of the effect, for floatY and the floating elements.
FloatFor(sv, mood, peak) ==
    IF mood = "meditating" THEN SetAnimation(sv, UpDown(peak)) ELSE sv

\* Body of the effect for the given mood (isComponentMounted.current is
\* set to true by the action that applies it).
MascotEffect(s, mood) ==
    LET s1 == [s EXCEPT !.life = "mounted", !.mood = mood,
                        !.sv["bodyBounce"] = SetAnimation(@, UpDown(-50))]
        s2 == blinkEyes(s1, TRUE)
    IN  [s2 EXCEPT
            !.sv["wingFlap"] = WingFlapFor(@, mood),
            !.sv["headTilt"] = HeadTiltFor(@, mood),
            !.sv["floatY"] = FloatFor(@, mood, -100),
            !.sv["floatingElement1Y"] = FloatFor(@, mood, -100),
            !.sv["floatingElement2Y"] = FloatFor(@, mood, -80)]

\* A cleanup that forgets the wings.
MascotCleanupForgetsWings == MascotValues \ {"wingFlap"}

\* The values the cleanup function cancels.
MascotCleanupCancels == MascotValues

\* Cleanup function of the effect (isComponentMounted.current is set to
\* false by the action that applies it).
MascotCleanup(s) ==
    [s EXCEPT !.sv = [n \in MascotValues |->
                        IF n \in MascotCleanupCancels
                        THEN cancelAnimation(s.sv[n]) ELSE s.sv[n]]]

\* First commit of instance i with the given mood prop: the effect runs.
MascotMount(i, prop) ==
    /\ mascot[i].life = "fresh"
    /\ mascot' = [mascot EXCEPT
                    ![i] = MascotEffect([@ EXCEPT !.prop = prop],
                                        MoodParam(prop))]
    /\ mascotMounted' = [mascotMounted EXCEPT ![MountedRef(i)] = TRUE]

\* Re-render of instance i with another mood prop.  When the mood (the
\* effect's only dependency) has changed, React runs the cleanup of the
\* previous effect and then the effect again; otherwise no effect runs.
MascotRender(i, prop) ==
    /\ mascot[i].life = "mounted"
    /\ prop # mascot[i].prop
    /\ IF MoodParam(prop) # mascot[i].mood
       THEN /\ mascot[i].timers < MaxTimers
            /\ mascot' = [mascot EXCEPT
                    ![i] = MascotEffect(MascotCleanup([@ EXCEPT !.prop = prop]),
                                        MoodParam(prop))]
            /\ mascotMounted' = [mascotMounted EXCEPT ![MountedRef(i)] = TRUE]
       ELSE /\ mascot' = [mascot EXCEPT ![i].prop = prop]
            /\ UNCHANGED mascotMounted

\* Unmount of instance i: React runs the cleanup.
MascotUnmount(i) ==
    /\ mascot[i].life = "mounted"
    /\ mascot' = [mascot EXCEPT
                    ![i] = [MascotCleanup(@) EXCEPT !.life = "unmounted"]]
    /\ mascotMounted' = [mascotMounted EXCEPT ![MountedRef(i)] = FALSE]

\* A pending setTimeout(blinkEyes, ...) of instance i fires.
MascotBlinkTimer(i) ==
    /\ mascot[i].timers > 0
    /\ mascot' = [mascot EXCEPT
                    ![i] = blinkEyes([@ EXCEPT !.timers = @ - 1],
                                     mascotMounted[MountedRef(i)])]
    /\ UNCHANGED mascotMounted

\* The animation engine advances the animation running on value n of
\* instance i.
MascotFrame(i, n) ==
    /\ Running(mascot[i].sv[n])
    /\ \E pick \in FramePicks(mascot[i].sv[n]) :
          mascot' = [mascot EXCEPT ![i].sv[n] = FrameOf(@, pick)]
    /\ UNCHANGED mascotMounted

\* ---------------------------------------------------------------- HomeScreen
HomeMascot == 1

\* moods.indexOf(mood), 0-based, -1 when absent.
IndexOf(s, x) ==
    IF \E k \in 1..Len(s) : s[k] = x
    THEN (CHOOSE k \in 1..Len(s) : s[k] = x /\ \A j \in 1..(k-1) : s[j] # x) - 1
    ELSE -1

\* A cycle that wraps one mood too early.
NextMoodShortCycle(mood) ==
    LET currentIndex == IndexOf(Moods, mood)
        nextIndex == (currentIndex + 1) % (Len(Moods) - 1)
    IN  Moods[nextIndex + 1]

NextMood(mood) ==
    LET currentIndex == IndexOf(Moods, mood)
        nextIndex == (currentIndex + 1) % Len(Moods)
    IN  Moods[nextIndex + 1]

\* HomeScreen mounts: its mascot is rendered with mood = mascotMood.
HomeMount ==
    /\ MascotMount(HomeMascot, homeMood)
    /\ UNCHANGED <<homeVars, homeFrame>>

\* changeMascotMood: a tap on the mascot; the screen re-renders the mascot
\* with the new mood.
changeMascotMood ==
    /\ homeTaps < MaxTaps
    /\ homeMood' = NextMood(homeMood)
    /\ homeTaps' = homeTaps + 1
    /\ UNCHANGED homeFrame
    /\ MascotRender(HomeMascot, NextMood(homeMood))

HomeUnmount ==
    /\ MascotUnmount(HomeMascot)
    /\ UNCHANGED <<homeVars, homeFrame>>

HomeBlinkTimer ==
    /\ MascotBlinkTimer(HomeMascot)
    /\ UNCHANGED <<homeVars, homeFrame>>

HomeFrame ==
    /\ \E n \in MascotValues : MascotFrame(HomeMascot, n)
    /\ UNCHANGED <<homeVars, homeFrame>>

\* ----------------------------------------------- MascotCharacter, any parent
\* The mood props a parent may pass, the absent prop included.
MoodProps == MoodSet \cup {Undefined}

\* The instance a parent renders with a mood held in its state.
AnyMascot == 1

AnyMount ==
    /\ \E prop \in MoodProps : MascotMount(AnyMascot, prop)
    /\ UNCHANGED mascotFrame

AnyRender ==
    /\ \E prop \in MoodProps : MascotRender(AnyMascot, prop)
    /\ UNCHANGED mascotFrame

AnyUnmount ==
    /\ MascotUnmount(AnyMascot)
    /\ UNCHANGED mascotFrame

AnyBlinkTimer ==
    /\ MascotBlinkTimer(AnyMascot)
    /\ UNCHANGED mascotFrame

AnyFrame ==
    /\ \E n \in MascotValues : MascotFrame(AnyMascot, n)
    /\ UNCHANGED mascotFrame

\* ------------------------------------------ two MascotCharacters, one parent
\* A parent that renders two instances at once, as WisdomScreen does: the
\* first with a mood it holds in its state ('thinking' | 'meditating'),
\* the second with the literal mood "meditating".
PairMoods(i) == IF i = 1 THEN {"thinking", "meditating"} ELSE {"meditating"}

PairMount ==
    /\ \E i \in MascotInstances : \E prop \in PairMoods(i) : MascotMount(i, prop)
    /\ UNCHANGED mascotFrame

PairRender ==
    /\ \E i \in MascotInstances : \E prop \in PairMoods(i) : MascotRender(i, prop)
    /\ UNCHANGED mascotFrame

PairUnmount ==
    /\ \E i \in MascotInstances : MascotUnmount(i)
    /\ UNCHANGED mascotFrame

PairBlinkTimer ==
    /\ \E i \in MascotInstances : MascotBlinkTimer(i)
    /\ UNCHANGED mascotFrame

PairFrame ==
    /\ \E i \in MascotInstances : \E n \in MascotValues : MascotFrame(i, n)
    /\ UNCHANGED mascotFrame

\* ---------------------------------------------------------- PaxtonCharacter
\* Mood changes of one PaxtonCharacter instance.
MaxRenders == 1

PaxtonMoods == {"happy", "thinking", "excited", "shy"}
PaxtonProps == PaxtonMoods

PaxtonValues == {"bodyBounce", "bodyRotation", "jumpHeight",
                 "characterRotation", "armWave", "legSwing", "headTilt",
                 "eyeBlink", "mouthSmile", "floatY"}

\* The self-rescheduling callbacks; a blink timer carries the argument of
\* the call it will make (isFullBlink).
TimerKinds == {"blinkFull", "blinkMicro", "arm", "happyWave", "gaze"}

\* A fault: every startAnimation call on value `on` made by the handler
\* throws, in cancelAnimation or in the assignment; "jump": the
\* cancelAnimation(on) call at the top of performJump throws; "onPress": the
\* onPress callback throws.
NoFault == [at |-> "none", on |-> "none"]
StartFaults == [at : {"cancel", "assign"}, on : PaxtonValues]
JumpFaults ==
    [at : {"jump"}, on : {"jumpHeight", "armWave", "headTilt", "floatY"}]
    \cup {[at |-> "onPress", on |-> "none"]}

\* Math.random() in randomizeArmMovements: no movement (<<>>), or an angle.
ArmChoices == {<<>>, <<50>>}
\* Math.random() in happyWave: no wave (<<>>), or an angle.
WaveChoices == {<<>>, <<70>>}

\* A plain number assigned through startAnimation.
Number(v) == [kind |-> "value", targets |-> <<v>>]

\* animatedValue.value = animation, where animation may be a number.
Assign(sv, animation) ==
    IF animation.kind = "value" THEN SetValue(sv, animation.targets[1])
    ELSE SetAnimation(sv, animation)

\* State after the first render: the hooks have run, the effect has not.
PaxtonFresh ==
    [life    |-> "fresh",
     prop    |-> Undefined,
     mood    |-> "happy",
     mounted |-> TRUE,           \* isComponentMounted.current
     timers  |-> [k \in TimerKinds |-> 0],
     sv      |-> [n \in PaxtonValues |->
                    IF n = "eyeBlink" THEN useSharedValue(10)
                    ELSE useSharedValue(0)],
     renders |-> 0,              \* mood changes so far
     \* What the handler that ran last did:
     log     |-> {},             \* the messages it passed to console.warn
     calls   |-> 0,              \* the onPress calls it made
     thrown  |-> FALSE,          \* an error is propagating in it
     escaped |-> FALSE]          \* an error has left it

\* console.warn(message, error)
Warn(p, message) == [p EXCEPT !.log = @ \cup {message}]

\* setTimeout(callback, delay)
SetTimeout(p, kind) == [p EXCEPT !.timers[kind] = @ + 1]

\* startAnimation without its try/catch: the error leaves the helper.
StartAnimationUnguarded(p, n, animation, fault) ==
    IF p.thrown THEN p
    ELSE IF fault.on = n /\ fault.at = "cancel"
    THEN [p EXCEPT !.thrown = TRUE]
    ELSE IF fault.on = n /\ fault.at = "assign"
    THEN [p EXCEPT !.sv[n] = cancelAnimation(@), !.thrown = TRUE]
    ELSE [p EXCEPT !.sv[n] = Assign(cancelAnimation(@), animation)]

\* startAnimation(animatedValue, animation): cancel, assign, and on an
\* error warn and return.
startAnimation(p, n, animation, fault) ==
    IF p.thrown THEN p
    ELSE IF fault.on = n /\ fault.at = "cancel"
    THEN Warn(p, "Animation error:")
    ELSE IF fault.on = n /\ fault.at = "assign"
    THEN Warn([p EXCEPT !.sv[n] = cancelAnimation(@)], "Animation error:")
    ELSE [p EXCEPT !.sv[n] = Assign(cancelAnimation(@), animation)]

\* A jump that also cancels the body bounce.
JumpValuesWithBody ==
    <<"jumpHeight", "armWave", "headTilt", "floatY", "bodyBounce">>

\* The values performJump cancels before it starts the jump.
JumpValues == <<"jumpHeight", "armWave", "headTilt", "floatY">>

\* The four cancelAnimation calls at the top of performJump.
RECURSIVE JumpCancels(_, _, _)
JumpCancels(p, names, fault) ==
    IF names = <<>> \/ p.thrown THEN p
    ELSE IF fault.at = "jump" /\ fault.on = Head(names)
    THEN [p EXCEPT !.thrown = TRUE]
    ELSE JumpCancels([p EXCEPT !.sv[Head(names)] = cancelAnimation(@)],
                     Tail(names), fault)

\* Variant: the head tilt of the jump stops at -2 degrees and does not
\* come back to 0.
JumpAnimationStuck(n) ==
    CASE n = "jumpHeight" ->
            withSequence(<<withTiming(-300), withDelay(withTiming(-300)),
                           withTiming(0), withTiming(-50), withTiming(0)>>)
      [] n = "floatY" ->
            withSequence(<<withDelay(withTiming(-80)), withDelay(withTiming(0))>>)
      [] n = "armWave" ->
            withSequence(<<withTiming(400), withTiming(-200),
                           withTiming(50), withTiming(0)>>)
      [] n = "headTilt" ->
            withSequence(<<withTiming(50), withTiming(-20)>>)

\* The animations performJump starts.
JumpAnimation(n) ==
    CASE n = "jumpHeight" ->
            withSequence(<<withTiming(-300), withDelay(withTiming(-300)),
                           withTiming(0), withTiming(-50), withTiming(0)>>)
      [] n = "floatY" ->
            withSequence(<<withDelay(withTiming(-80)), withDelay(withTiming(0))>>)
      [] n = "armWave" ->
            withSequence(<<withTiming(400), withTiming(-200),
                           withTiming(50), withTiming(0)>>)
      [] n = "headTilt" ->
            withSequence(<<withTiming(50), withTiming(-20), withTiming(0)>>)

\* The values the catch block of performJump writes.
JumpCatch(p) ==
    [p EXCEPT !.thrown = FALSE,
              !.log = @ \cup {"Jump animation error:"},
              !.sv["jumpHeight"] = SetValue(@, 0),
              !.sv["armWave"] = SetValue(@, 10),
              !.sv["headTilt"] = SetValue(@, 10)]

\* if (onPress) onPress(); the parent provides the prop or does not.
CallOnPress(p, onPress, fault) ==
    IF p.thrown \/ ~onPress THEN p
    ELSE IF fault.at = "onPress" THEN [p EXCEPT !.calls = @ + 1, !.thrown = TRUE]
    ELSE [p EXCEPT !.calls = @ + 1]

\* performJump()
performJump(p, onPress, fault) ==
    LET p1 == JumpCancels(p, JumpValues, fault)
        p2 == startAnimation(p1, "jumpHeight", JumpAnimation("jumpHeight"), fault)
        p3 == startAnimation(p2, "floatY", JumpAnimation("floatY"), fault)
        p4 == startAnimation(p3, "armWave", JumpAnimation("armWave"), fault)
        p5 == startAnimation(p4, "headTilt", JumpAnimation("headTilt"), fault)
        p6 == CallOnPress(p5, onPress, fault)
    IN  IF p6.thrown THEN JumpCatch(p6) ELSE p6

\* value = value || fallback: a falsy value (0) is replaced by the fallback.
OrElse(v, fallback) == IF v = 0 THEN fallback ELSE v

\* The "safety check" assignments at the top of the effect.
SafetyInit(p) ==
    [p EXCEPT !.sv = [n \in PaxtonValues |->
        SetValue(p.sv[n],
                 OrElse(p.sv[n].val, IF n = "eyeBlink" THEN 10 ELSE 0))]]

Swing(a, b) == withRepeat(withSequence(<<withTiming(a), withTiming(b)>>))

\* setupIdleBreathing()
setupIdleBreathing(p, fault) ==
    startAnimation(startAnimation(p, "bodyBounce", Swing(12, 0), fault),
                   "armWave", Swing(8, -5), fault)

\* The guard of blink.
BlinkMayRun(p) == p.mounted

\* blink(isFullBlink); activeAnimation is never written, because the
\* function setupEyeBlink returns is dropped by its caller.
blink(p, isFullBlink) ==
    IF p.thrown \/ ~BlinkMayRun(p) THEN p
    ELSE SetTimeout(
            [p EXCEPT !.sv["eyeBlink"] = SetAnimation(@,
                IF isFullBlink
                THEN withSequence(<<withTiming(0), withTiming(0), withTiming(10)>>)
                ELSE withSequence(<<withTiming(4), withTiming(10)>>))],
            IF isFullBlink THEN "blinkMicro" ELSE "blinkFull")

\* The guard of randomizeArmMovements, happyWave and changeGaze: none.
LoopMayRun(p) == TRUE

\* randomizeArmMovements()
randomizeArmMovements(p, choice, fault) ==
    IF p.thrown \/ ~LoopMayRun(p) THEN p
    ELSE LET p1 == [p EXCEPT !.sv["armWave"] = cancelAnimation(@)]
             p2 == IF choice = <<>>
                   THEN [p1 EXCEPT !.sv["armWave"] = SetValue(@, 0)]
                   ELSE startAnimation(p1, "armWave",
                            withSequence(<<withTiming(choice[1]), withTiming(0)>>),
                            fault)
         IN  SetTimeout(p2, "arm")

\* happyWave()
happyWave(p, choice, fault) ==
    IF p.thrown \/ ~LoopMayRun(p) THEN p
    ELSE SetTimeout(
            IF choice = <<>> THEN p
            ELSE startAnimation(p, "armWave",
                    withSequence(<<withTiming(choice[1]), withTiming(0)>>), fault),
            "happyWave")

\* changeGaze()
changeGaze(p, fault) ==
    IF p.thrown \/ ~LoopMayRun(p) THEN p
    ELSE SetTimeout(
            startAnimation(p, "eyeBlink",
                withSequence(<<withTiming(7), withTiming(10)>>), fault),
            "gaze")

\* The mood-specific part of the effect.
MoodAnimations(p, mood, wave, fault) ==
    CASE mood = "happy" ->
            happyWave(
                startAnimation(
                    startAnimation(p, "bodyBounce", Swing(-80, 0), fault),
                    "mouthSmile", withTiming(15), fault),
                wave, fault)
      [] mood = "thinking" ->
            changeGaze(
                startAnimation(
                    startAnimation(p, "headTilt",
                        withRepeat(withSequence(<<withTiming(70), withTiming(30),
                                                  withTiming(70)>>)), fault),
                    "bodyBounce", withRepeat(withTiming(15)), fault),
                fault)
      [] mood = "excited" ->
            startAnimation(
                startAnimation(
                    startAnimation(
                        startAnimation(p, "bodyBounce",
                            withRepeat(withTiming(-50)), fault),
                        "eyeBlink", withTiming(12), fault),
                    "mouthSmile", withTiming(15), fault),
                "armWave", withRepeat(withTiming(300)), fault)
      [] mood = "shy" ->
            startAnimation(
                startAnimation(
                    startAnimation(p, "bodyBounce", withTiming(100), fault),
                    "headTilt", withTiming(80), fault),
                "armWave", withTiming(250), fault)
      [] OTHER -> p

\* Body of the effect for the given mood.
PaxtonEffect(p, mood, arm, wave, fault) ==
    LET p1 == [SafetyInit(p) EXCEPT !.life = "mounted", !.mood = mood,
                                    !.mounted = TRUE]
        p2 == startAnimation(p1, "bodyBounce", Swing(-30, 0), fault)
        p3 == startAnimation(p2, "legSwing", Number(0), fault)
        p4 == setupIdleBreathing(p3, fault)
        p5 == blink(p4, TRUE)
        p6 == randomizeArmMovements(p5, arm, fault)
    IN  MoodAnimations(p6, mood, wave, fault)

\* Cleanup function of the effect.
PaxtonCleanup(p) ==
    [p EXCEPT !.mounted = FALSE,
              !.sv = [n \in PaxtonValues |-> cancelAnimation(p.sv[n])]]

\* Start of a handler.
Begin(p) == [p EXCEPT !.log = {}, !.calls = 0, !.escaped = FALSE]

\* End of a handler: an error still propagating has left it.
Done(p) == [p EXCEPT !.escaped = p.thrown, !.thrown = FALSE]

PaxtonMount(prop, arm, wave, fault) ==
    /\ paxton.life = "fresh"
    /\ paxton' = Done(PaxtonEffect(Begin([paxton EXCEPT !.prop = prop]),
                                   MoodParam(prop), arm, wave, fault))

\* Re-render with another mood prop: cleanup, then the effect again.
PaxtonRender(prop, arm, wave, fault) ==
    /\ paxton.life = "mounted"
    /\ prop # paxton.prop
    /\ IF MoodParam(prop) # paxton.mood
       THEN /\ paxton.renders < MaxRenders
            /\ paxton' = Done(PaxtonEffect(
                                PaxtonCleanup(Begin([paxton EXCEPT
                                    !.prop = prop, !.renders = @ + 1])),
                                MoodParam(prop), arm, wave, fault))
       ELSE /\ fault = NoFault /\ arm = <<>> /\ wave = <<>>
            /\ paxton' = [paxton EXCEPT !.prop = prop]

PaxtonUnmount ==
    /\ paxton.life = "mounted"
    /\ paxton' = Done([PaxtonCleanup(Begin(paxton)) EXCEPT !.life = "unmounted"])

\* The character is pressed; the faults are injected into presses of a
\* character that was given an onPress prop.
PaxtonPress(onPress, fault) ==
    /\ paxton.life = "mounted"
    /\ fault # NoFault => onPress
    /\ paxton' = Done(performJump(Begin(paxton), onPress, fault))

\* A pending blink timer fires.
PaxtonBlinkTimer(isFullBlink) ==
    LET kind == IF isFullBlink THEN "blinkFull" ELSE "blinkMicro"
    IN  /\ paxton.timers[kind] > 0
        /\ paxton' = Done(blink(Begin([paxton EXCEPT !.timers[kind] = @ - 1]),
                                isFullBlink))

\* A pending randomizeArmMovements timer fires.
PaxtonArmTimer(choice, fault) ==
    /\ paxton.timers["arm"] > 0
    /\ paxton' = Done(randomizeArmMovements(
                        Begin([paxton EXCEPT !.timers["arm"] = @ - 1]),
                        choice, fault))

\* A pending happyWave timer fires.
PaxtonWaveTimer(choice, fault) ==
    /\ paxton.timers["happyWave"] > 0
    /\ paxton' = Done(happyWave(
                        Begin([paxton EXCEPT !.timers["happyWave"] = @ - 1]),
                        choice, fault))

\* A pending changeGaze timer fires.
PaxtonGazeTimer(fault) ==
    /\ paxton.timers["gaze"] > 0
    /\ paxton' = Done(changeGaze(
                        Begin([paxton EXCEPT !.timers["gaze"] = @ - 1]), fault))

\* A frame of the animation engine: a repeating animation on value n moves
\* on, or the finite animations (value n among them) run to their end.
PaxtonFrame(n) ==
    /\ Running(paxton.sv[n])
    /\ \E pick \in FramePicks(paxton.sv[n]) :
          paxton' = [paxton EXCEPT !.sv =
              [m \in PaxtonValues |->
                  IF m = n \/ (~Repeating(paxton.sv[n]) /\ ~Repeating(paxton.sv[m])
                                 /\ Running(paxton.sv[m]))
                  THEN FrameOf(paxton.sv[m],
                               IF m = n THEN pick ELSE paxton.sv[m].val)
                  ELSE paxton.sv[m]]]

\* The faults injected into a press: a startAnimation call of performJump
\* throws, one of its cancelAnimation calls throws, onPress throws.
PressFaults ==
    {NoFault} \cup {f \in StartFaults : f.on = "armWave"} \cup JumpFaults

PxMount ==
    /\ \E prop \in PaxtonProps, arm \in ArmChoices, wave \in WaveChoices :
            PaxtonMount(prop, arm, wave, NoFault)
    /\ UNCHANGED paxtonFrame

PxRender ==
    /\ \E prop \in PaxtonProps, arm \in ArmChoices, wave \in WaveChoices :
          PaxtonRender(prop, arm, wave, NoFault)
    /\ UNCHANGED paxtonFrame

PxUnmount ==
    /\ PaxtonUnmount
    /\ UNCHANGED paxtonFrame

PxPress ==
    /\ \E onPress \in BOOLEAN, fault \in PressFaults :
            PaxtonPress(onPress, fault)
    /\ UNCHANGED paxtonFrame

PxBlinkTimer ==
    /\ \E isFullBlink \in BOOLEAN : PaxtonBlinkTimer(isFullBlink)
    /\ UNCHANGED paxtonFrame

PxArmTimer ==
    /\ \E choice \in ArmChoices : PaxtonArmTimer(choice, NoFault)
    /\ UNCHANGED paxtonFrame

PxWaveTimer ==
    /\ \E choice \in WaveChoices : PaxtonWaveTimer(choice, NoFault)
    /\ UNCHANGED paxtonFrame

PxGazeTimer ==
    /\ PaxtonGazeTimer(NoFault)
    /\ UNCHANGED paxtonFrame

PxFrame ==
    /\ \E n \in PaxtonValues : PaxtonFrame(n)
    /\ UNCHANGED paxtonFrame

PaxtonNext ==
    \/ PxMount
    \/ PxRender
    \/ PxUnmount
    \/ PxPress
    \/ PxBlinkTimer
    \/ PxArmTimer
    \/ PxWaveTimer
    \/ PxGazeTimer
    \/ PxFrame

\* ----------------------------------------------------------- DecisionsScreen
\* Longest text typed into the decision input.
MaxText == 2

\* Texts of the decision input: strings of blanks and letters.
Chars == {" ", "a"}
Texts == UNION {[1..k -> Chars] : k \in 0..MaxText}

\* String.prototype.trim()
RECURSIVE TrimStart(_)
TrimStart(t) ==
    IF t # <<>> /\ Head(t) = " " THEN TrimStart(Tail(t)) ELSE t

RECURSIVE TrimEnd(_)
TrimEnd(t) ==
    IF t # <<>> /\ t[Len(t)] = " " THEN TrimEnd(SubSeq(t, 1, Len(t) - 1)) ELSE t

Trim(t) == TrimEnd(TrimStart(t))

\* What the step input may hold when Next Step is pressed.
Responses == {"", "r"}

\* The decision frameworks; steps holds the positions of a framework's steps.
Null == 0
frameworks ==
    [id \in 1..4 |-> [id |-> id, steps |-> <<1, 2, 3, 4>>]]

DecisionsInit ==
    [decision          |-> <<>>,
     selectedFramework |-> Null,
     currentStep       |-> 0,
     responses         |-> <<>>,
     showResults       |-> FALSE,
     inputText         |-> "",
     mascotMood        |-> "thinking"]

\* Variant: the step view ignores showResults, so its buttons stay on
\* the results view.
StepViewShownWithResults == decisions.selectedFramework # Null

\* What the screen renders: the framework list, the step view or the results.
FrameworkListShown == decisions.selectedFramework = Null
StepViewShown == decisions.selectedFramework # Null /\ ~decisions.showResults
ResultsShown == decisions.selectedFramework # Null /\ decisions.showResults

\* onChangeText of the decision input.
setDecision(text) ==
    /\ UNCHANGED decisionsFrame
    /\ FrameworkListShown
    /\ decisions' = [decisions EXCEPT !.decision = text]

\* onChangeText of the step input.
setInputText(text) ==
    /\ UNCHANGED decisionsFrame
    /\ StepViewShown
    /\ decisions' = [decisions EXCEPT !.inputText = text]

\* The mood handleFrameworkSelect sets.
SelectMood == "excited"

handleFrameworkSelect(framework) ==
    /\ UNCHANGED decisionsFrame
    /\ FrameworkListShown
    /\ Trim(decisions.decision) # <<>>      \* disabled={!decision.trim()}
    /\ decisions' = [decisions EXCEPT
                        !.selectedFramework = framework,
                        !.currentStep = 0,
                        !.responses = <<>>,
                        !.showResults = FALSE,
                        !.mascotMood = SelectMood]

\* The mood the progress branch of handleNextStep sets (the mood stays
\* when neither condition holds).
\* A progress mood that looks for the last step instead of the one before.
ProgressMoodOffByOne(d, steps) ==
    IF d.currentStep = 0 THEN "thinking"
    ELSE IF d.currentStep = Len(steps) - 1 THEN "excited"
    ELSE d.mascotMood

\* A results branch that leaves the mood alone.
ResultsMoodKept(d) == d.mascotMood

ProgressMood(d, steps) ==
    IF d.currentStep = 0 THEN "thinking"
    ELSE IF d.currentStep = Len(steps) - 2 THEN "excited"
    ELSE d.mascotMood

\* The mood the results branch of handleNextStep sets.
ResultsMood(d) == "meditating"

\* Variant: a handleNextStep that goes one step further before it shows
\* the results.
NextStepOfOneMore(d, response) ==
    LET d1 == [d EXCEPT !.responses = Append(@, response), !.inputText = ""]
    IN  IF d.selectedFramework # Null
           /\ d.currentStep <= Len(frameworks[d.selectedFramework].steps) - 1
        THEN [d1 EXCEPT
                !.currentStep = d.currentStep + 1,
                !.mascotMood =
                    ProgressMood(d, frameworks[d.selectedFramework].steps)]
        ELSE [d1 EXCEPT !.showResults = TRUE, !.mascotMood = ResultsMood(d)]

\* Result of handleNextStep(response) on the screen state d.
NextStepOf(d, response) ==
    LET d1 == [d EXCEPT !.responses = Append(@, response), !.inputText = ""]
    IN  IF d.selectedFramework # Null
           /\ d.currentStep < Len(frameworks[d.selectedFramework].steps) - 1
        THEN [d1 EXCEPT
                !.currentStep = d.currentStep + 1,
                !.mascotMood =
                    ProgressMood(d, frameworks[d.selectedFramework].steps)]
        ELSE [d1 EXCEPT !.showResults = TRUE, !.mascotMood = ResultsMood(d)]

\* Next Step / Complete is pressed with the step input's text.
handleNextStep ==
    /\ UNCHANGED decisionsFrame
    /\ StepViewShown
    /\ decisions' = NextStepOf(decisions, decisions.inputText)

\* Start Over / Make Another Decision.
resetDecision ==
    /\ UNCHANGED decisionsFrame
    /\ ~FrameworkListShown
    /\ decisions' = [decisions EXCEPT
                        !.decision = <<>>,
                        !.selectedFramework = Null,
                        !.currentStep = 0,
                        !.responses = <<>>,
                        !.showResults = FALSE,
                        !.mascotMood = "thinking"]

DecisionsNext ==
    \/ \E text \in Texts : setDecision(text)
    \/ \E text \in Responses : setInputText(text)
    \/ \E f \in DOMAIN frameworks : handleFrameworkSelect(f)
    \/ handleNextStep
    \/ resetDecision

\* --------------------------------------------------------------- WisdomScreen
\* The module-level sample data: four philosophies of three quotes each.  A
\* quote's text is stood for by its place in the data.
philosophers ==
    [id \in 1..4 |->
        [id |-> id,
         quotes |-> [k \in 1..3 |-> [id |-> k, text |-> <<id, k>>]]]]

\* philosophers.flatMap(p => p.quotes)
allQuotes ==
    philosophers[1].quotes \o philosophers[2].quotes
        \o philosophers[3].quotes \o philosophers[4].quotes

\* Values of Math.floor(Math.random() * allQuotes.length) + 1 that are tried.
RandomQuoteIndexes == {1, Len(allQuotes)}

\* The useState cells of WisdomScreen; selectedPhilosophy holds the id of
\* the element of philosophers it refers to, or Null.
WisdomInit ==
    [mounted            |-> FALSE,
     selectedPhilosophy |-> Null,
     dailyQuote         |-> [id |-> 0, text |-> <<>>],
     mascotMood         |-> "thinking"]

\* The MascotCharacter elements of WisdomScreen: the one in the header of
\* the daily quote and the one in the header of Key Teachings.
WisdomMascots == [header |-> 1, teachings |-> 2]

\* Variant: Key Teachings lists the quotes of every philosophy.
KeyTeachingsOfAll(w) ==
    IF w.selectedPhilosophy = Null THEN <<>> ELSE allQuotes

\* The quotes the Key Teachings section renders.
KeyTeachings(w) ==
    IF w.selectedPhilosophy = Null THEN <<>>
    ELSE philosophers[w.selectedPhilosophy].quotes

\* First commit of the screen: the header mascot mounts with the initial
\* mood, and the mount effect picks the quote of the day.
WisdomMount ==
    /\ UNCHANGED wisdomFrame
    /\ ~wisdom.mounted
    /\ \E index \in RandomQuoteIndexes :
          wisdom' = [WisdomInit EXCEPT !.mounted = TRUE,
                                       !.dailyQuote = allQuotes[index]]
    /\ MascotMount(WisdomMascots.header, WisdomInit.mascotMood)

\* A philosophy card is pressed.  The commit that follows re-renders the
\* header mascot with the new mood and, when Key Teachings appears, mounts
\* the mascot of its header.
handlePhilosophyPress(philosophy) ==
    /\ UNCHANGED wisdomFrame
    /\ wisdom.mounted
    /\ wisdom' = [wisdom EXCEPT !.selectedPhilosophy = philosophy.id,
                                !.mascotMood = "meditating"]
    /\ mascot' = [i \in MascotInstances |->
          IF i = WisdomMascots.header /\ wisdom.mascotMood # "meditating"
          THEN MascotEffect(MascotCleanup([mascot[i] EXCEPT
                                              !.prop = "meditating"]),
                            MoodParam("meditating"))
          ELSE IF i = WisdomMascots.teachings
                  /\ wisdom.selectedPhilosophy = Null
          THEN MascotEffect([mascot[i] EXCEPT !.prop = "meditating"],
                            MoodParam("meditating"))
          ELSE mascot[i]]
    /\ mascotMounted' = [r \in MascotInstances |->
          IF \E i \in MascotInstances :
                MountedRef(i) = r /\ mascot'[i] # mascot[i]
          THEN TRUE ELSE mascotMounted[r]]

\* The screen unmounts, and the mascots it renders with it.
WisdomUnmount ==
    /\ UNCHANGED wisdomFrame
    /\ wisdom.mounted
    /\ wisdom' = WisdomInit
    /\ mascot' = [i \in MascotInstances |->
          IF mascot[i].life = "mounted"
          THEN [MascotCleanup(mascot[i]) EXCEPT !.life = "unmounted"]
          ELSE mascot[i]]
    /\ mascotMounted' = [r \in MascotInstances |->
          IF \E i \in MascotInstances :
                MountedRef(i) = r /\ mascot[i].life = "mounted"
          THEN FALSE ELSE mascotMounted[r]]

WisdomBlinkTimer ==
    /\ \E i \in MascotInstances : MascotBlinkTimer(i)
    /\ UNCHANGED <<wisdom, wisdomFrame>>

WisdomFrame ==
    /\ \E i \in MascotInstances : \E n \in MascotValues : MascotFrame(i, n)
    /\ UNCHANGED <<wisdom, wisdomFrame>>

WisdomNext ==
    \/ WisdomMount
    \/ \E id \in DOMAIN philosophers : handlePhilosophyPress(philosophers[id])
    \/ WisdomUnmount
    \/ WisdomBlinkTimer
    \/ WisdomFrame

\* -------------------------------------------------------------------- Init
\* ------------------------------------------------ HabitsScreen, ProfileScreen
\* A state cell holds a reference to an object: <<>> is the object the
\* module-level sample data holds at the same position (useState(initial)
\* stores the module's own objects), <<v>> is an object of the screen's own
\* with the fields v.
HabitIds == 1..4
PreferenceIds == 1..6
SettingNames == {"darkMode", "notifications", "dailyReminders",
                 "weeklyReports", "dataSync"}
\* Date.getDay() and the indices of daysOfWeek.
Days == 0..6

initialHabits ==
    [id \in HabitIds |-> [streak |-> <<3, 5, 1, 7>>[id], completed |-> FALSE]]

philosophicalPreferences ==
    [id \in PreferenceIds |-> [selected |-> id <= 3]]

initialSettings ==
    [darkMode |-> FALSE, notifications |-> TRUE, dailyReminders |-> TRUE,
     weeklyReports |-> TRUE, dataSync |-> FALSE]

\* The module-level objects as the modules create them.
SampleData ==
    [initialHabits |-> initialHabits,
     philosophicalPreferences |-> philosophicalPreferences,
     initialSettings |-> initialSettings]

\* The object a cell refers to.
Deref(cell, object) == IF cell = <<>> THEN object ELSE cell[1]

HabitsUnmounted ==
    [mounted |-> FALSE, habits |-> [id \in HabitIds |-> <<>>], selectedDay |-> 0]

ProfileUnmounted ==
    [mounted |-> FALSE, preferences |-> [id \in PreferenceIds |-> <<>>],
     settings |-> <<>>]

\* What the screens show: the fields of the objects their state refers to.
HabitValues(h, data) ==
    [id \in HabitIds |-> Deref(h.habits[id], data.initialHabits[id])]

PreferenceValues(s, data) ==
    [id \in PreferenceIds |->
        Deref(s.preferences[id], data.philosophicalPreferences[id])]

SettingValues(s, data) == Deref(s.settings, data.initialSettings)

\* HabitsScreen mounts: useState(initialHabits), useState(new Date().getDay()).
HabitsMount ==
    /\ ~habitsScreen.mounted
    /\ ~profileScreen.mounted
    /\ \E day \in Days :
          habitsScreen' = [HabitsUnmounted EXCEPT !.mounted = TRUE,
                                                  !.selectedDay = day]
    /\ UNCHANGED <<moduleData, profileScreen, everToggled, dataFrame>>

HabitsUnmount ==
    /\ habitsScreen.mounted
    /\ habitsScreen' = HabitsUnmounted
    /\ UNCHANGED <<moduleData, profileScreen, everToggled, dataFrame>>

\* A day of the calendar strip is pressed.
setSelectedDay ==
    /\ habitsScreen.mounted
    /\ \E index \in Days : habitsScreen' = [habitsScreen EXCEPT !.selectedDay = index]
    /\ UNCHANGED <<moduleData, profileScreen, everToggled, dataFrame>>

\* { ...habit, completed: !habit.completed, streak: ... }
ToggledHabit(habit) ==
    [completed |-> ~habit.completed,
     streak |-> IF ~habit.completed THEN habit.streak + 1 ELSE habit.streak - 1]

\* An updater that writes the fields of the habit object it is given.
HabitsToggledInPlace(h, data, id) ==
    IF h.habits[id] = <<>>
    THEN [state |-> h,
          data |-> [data EXCEPT !.initialHabits[id] = ToggledHabit(@)]]
    ELSE [state |-> [h EXCEPT !.habits[id] = <<ToggledHabit(@[1])>>],
          data |-> data]

\* The updater of toggleHabitCompletion: prevHabits.map(...) with a new
\* object for the habit with the id and the same objects for the others.
HabitsToggled(h, data, id) ==
    [state |-> [h EXCEPT !.habits[id] =
                    <<ToggledHabit(Deref(@, data.initialHabits[id]))>>],
     data |-> data]

toggleHabitCompletion ==
    /\ habitsScreen.mounted
    /\ \E id \in HabitIds :
          LET r == HabitsToggled(habitsScreen, moduleData, id)
          IN  /\ habitsScreen' = r.state
              /\ moduleData' = r.data
    /\ everToggled' = TRUE
    /\ UNCHANGED <<profileScreen, dataFrame>>

\* ProfileScreen mounts: useState(philosophicalPreferences),
\* useState(initialSettings).
ProfileMount ==
    /\ ~profileScreen.mounted
    /\ ~habitsScreen.mounted
    /\ profileScreen' = [ProfileUnmounted EXCEPT !.mounted = TRUE]
    /\ UNCHANGED <<moduleData, habitsScreen, everToggled, dataFrame>>

ProfileUnmount ==
    /\ profileScreen.mounted
    /\ profileScreen' = ProfileUnmounted
    /\ UNCHANGED <<moduleData, habitsScreen, everToggled, dataFrame>>

\* The updater of togglePreference.
PreferencesToggled(s, data, id) ==
    [state |-> [s EXCEPT !.preferences[id] =
                    <<[selected |->
                        ~Deref(@, data.philosophicalPreferences[id]).selected]>>],
     data |-> data]

togglePreference ==
    /\ profileScreen.mounted
    /\ \E id \in PreferenceIds :
          LET r == PreferencesToggled(profileScreen, moduleData, id)
          IN  /\ profileScreen' = r.state
              /\ moduleData' = r.data
    /\ everToggled' = TRUE
    /\ UNCHANGED <<habitsScreen, dataFrame>>

\* The updater of toggleSetting: { ...prevSettings, [setting]: !prev[setting] }
SettingsToggled(s, data, setting) ==
    [state |-> [s EXCEPT !.settings =
                    <<[Deref(@, data.initialSettings) EXCEPT ![setting] = ~@]>>],
     data |-> data]

toggleSetting ==
    /\ profileScreen.mounted
    /\ \E setting \in SettingNames :
          LET r == SettingsToggled(profileScreen, moduleData, setting)
          IN  /\ profileScreen' = r.state
              /\ moduleData' = r.data
    /\ everToggled' = TRUE
    /\ UNCHANGED <<habitsScreen, dataFrame>>

ScreensNext ==
    \/ HabitsMount
    \/ HabitsUnmount
    \/ setSelectedDay
    \/ toggleHabitCompletion
    \/ ProfileMount
    \/ ProfileUnmount
    \/ togglePreference
    \/ toggleSetting

\* ------------------------------------------------------------ specifications
Init ==
    /\ mascot = [i \in MascotInstances |-> MascotFresh]
    /\ mascotMounted = [i \in MascotInstances |-> TRUE]
    /\ homeMood = "happy"
    /\ homeTaps = 0
    /\ decisions = DecisionsInit
    /\ wisdom = WisdomInit
    /\ paxton = PaxtonFresh
    /\ moduleData = SampleData
    /\ habitsScreen = HabitsUnmounted
    /\ profileScreen = ProfileUnmounted
    /\ everToggled = FALSE

\* A MascotCharacter under a parent that may pass it any mood at any time.
Next ==
    \/ AnyMount
    \/ AnyRender
    \/ AnyUnmount
    \/ AnyBlinkTimer
    \/ AnyFrame

Spec == Init /\ [][Next]_vars

\* The timers of the JavaScript runtime fire: a pending blink callback is
\* not postponed for ever.
SpecFair == Spec /\ WF_vars(AnyBlinkTimer)

HomeNext ==
    \/ HomeMount
    \/ changeMascotMood
    \/ HomeUnmount
    \/ HomeBlinkTimer
    \/ HomeFrame

SpecHome == Init /\ [][HomeNext]_vars

PairNext ==
    \/ PairMount
    \/ PairRender
    \/ PairUnmount
    \/ PairBlinkTimer
    \/ PairFrame

SpecPair == Init /\ [][PairNext]_vars

SpecDecisions == Init /\ [][DecisionsNext]_vars

SpecPaxton == Init /\ [][PaxtonNext]_vars

\* A screen that renders one animated character, a MascotCharacter or a
\* PaxtonCharacter.
CharacterNext ==
    \/ paxton.life = "fresh" /\ AnyMount
    \/ paxton.life = "fresh" /\ AnyRender
    \/ paxton.life = "fresh" /\ AnyUnmount
    \/ paxton.life = "fresh" /\ AnyBlinkTimer
    \/ paxton.life = "fresh" /\ AnyFrame
    \/ mascot[AnyMascot].life = "fresh" /\ PxMount
    \/ mascot[AnyMascot].life = "fresh" /\ PxRender
    \/ mascot[AnyMascot].life = "fresh" /\ PxUnmount
    \/ mascot[AnyMascot].life = "fresh" /\ PxPress
    \/ mascot[AnyMascot].life = "fresh" /\ PxBlinkTimer
    \/ mascot[AnyMascot].life = "fresh" /\ PxArmTimer
    \/ mascot[AnyMascot].life = "fresh" /\ PxWaveTimer
    \/ mascot[AnyMascot].life = "fresh" /\ PxGazeTimer
    \/ mascot[AnyMascot].life = "fresh" /\ PxFrame

SpecCharacter == Init /\ [][CharacterNext]_vars

SpecScreens == Init /\ [][ScreensNext]_vars

SpecWisdom == Init /\ [][WisdomNext]_vars

\* ------------------------------------------------------------------ claims

\* The values of a mounted instance that carry a repeating animation.
RepeatingValues(i) == {n \in MascotValues : Repeating(mascot[i].sv[n])}

\* The repeating animations the mood m calls for.
MoodRepeats(m) ==
    {"bodyBounce"}
    \cup (IF m \in {"excited", "thinking"} THEN {"wingFlap"} ELSE {})
    \cup (IF m = "thinking" THEN {"headTilt"} ELSE {})
    \cup (IF m = "meditating"
          THEN {"floatY", "floatingElement1Y", "floatingElement2Y"} ELSE {})

\* C1: while a MascotCharacter is mounted, so in particular right after its
\* effect has run for mood m, the values that carry a repeating animation
\* are those m calls for (bodyBounce always, wingFlap iff excited or
\* thinking, headTilt iff thinking, the three float values iff meditating)
\* and a blink timer is pending; without a mood prop the mood is happy.
C1_MoodFixesRepeats ==
    \A i \in MascotInstances :
        mascot[i].life = "mounted" =>
            /\ RepeatingValues(i) = MoodRepeats(mascot[i].mood)
            /\ mascot[i].timers >= 1
            /\ mascot[i].mood \in MoodSet
            /\ mascot[i].prop = Undefined => mascot[i].mood = "happy"
            /\ mascot[i].prop # Undefined => mascot[i].mood = mascot[i].prop

\* C1 witness: the effect has run again for happy after a mood that flaps
\* the wings, and the wings are at rest off their start value.
C1_Witness ==
    /\ mascot[AnyMascot].life = "mounted"
    /\ mascot[AnyMascot].prop = Undefined
    /\ mascot[AnyMascot].timers >= 2
    /\ mascot[AnyMascot].sv["wingFlap"].val # 0
    /\ ~Running(mascot[AnyMascot].sv["wingFlap"])

\* C2: after n taps the home mascot's mood is the (n mod 4)-th mood of
\* happy, thinking, excited, meditating, and it is one of these four.
C2_MoodCycle ==
    /\ homeMood = Moods[(homeTaps % 4) + 1]
    /\ homeMood \in {"happy", "thinking", "excited", "meditating"}

\* C2 witness: the fifth tap has wrapped around to thinking.
C2_Witness == homeTaps = 5 /\ homeMood = "thinking"

\* C3: whenever the results view is shown the mascot mood is meditating.
C3_ResultsMeditating ==
    decisions.showResults => decisions.mascotMood = "meditating"

\* C3 witness: the results of a completed framework are shown.
C3_Witness ==
    /\ ResultsShown
    /\ Len(decisions.responses) = Len(frameworks[decisions.selectedFramework].steps)

\* The mood the decisions flow prescribes for the progress made in an
\* N-step framework.
ProgressMoodOf(d) ==
    IF d.selectedFramework = Null THEN "thinking"
    ELSE LET N == Len(frameworks[d.selectedFramework].steps)
         IN  IF d.showResults THEN "meditating"
             ELSE IF d.currentStep = 0 THEN "excited"
             ELSE IF d.currentStep = N - 1 THEN "excited"
             ELSE "thinking"

\* C4: the decisions mascot mood follows the progress: thinking before a
\* selection and after a reset, excited on selection, thinking once the
\* first step is answered, excited once step N-1 is answered, meditating
\* once step N is answered; the mood changes only in handleFrameworkSelect,
\* handleNextStep and resetDecision, and resetDecision sets thinking.
C4_MoodFollowsProgress ==
    /\ [](decisions.mascotMood = ProgressMoodOf(decisions))
    /\ [][(decisions'.mascotMood # decisions.mascotMood =>
                \/ \E f \in DOMAIN frameworks : handleFrameworkSelect(f)
                \/ handleNextStep
                \/ resetDecision)
           /\ (resetDecision => decisions'.mascotMood = "thinking")]_vars

\* C4 witness: step N-1 of N has just been answered.
C4_Witness ==
    /\ StepViewShown
    /\ decisions.currentStep = Len(frameworks[decisions.selectedFramework].steps) - 1
    /\ Len(decisions.responses) = decisions.currentStep
    /\ decisions.mascotMood = "excited"

\* C5: a step that changes one MascotCharacter instance (its mood change,
\* timer callback, frame or unmount) leaves every other instance as it was:
\* its animation values, its pending timers and its mounted flag.
C5_InstancesShareNothing ==
    [][\A i \in MascotInstances : \A j \in MascotInstances \ {i} :
          mascot'[i] # mascot[i] =>
              /\ mascot'[j] = mascot[j]
              /\ mascotMounted'[MountedRef(j)] = mascotMounted[MountedRef(j)]]_vars

\* C5 witness: the first instance has unmounted while the second is still
\* mounted, floats and has its blink timer pending.
C5_Witness ==
    /\ mascot[1].life = "unmounted"
    /\ ~mascotMounted[MountedRef(1)]
    /\ mascot[2].life = "mounted"
    /\ mascotMounted[MountedRef(2)]
    /\ mascot[2].timers >= 1
    /\ Repeating(mascot[2].sv["floatY"])

\* The values whose running animation is gone after the step.
MascotEnded ==
    {n \in MascotValues :
        /\ Running(mascot[AnyMascot].sv[n])
        /\ mascot'[AnyMascot].sv[n].anim # mascot[AnyMascot].sv[n].anim}

PaxtonEnded ==
    {n \in PaxtonValues :
        /\ Running(paxton.sv[n])
        /\ paxton'.sv[n].anim # paxton.sv[n].anim}

\* The step is a frame of the animation engine in which the animations
\* that are gone have run to their end.
MascotFinished ==
    /\ \A n \in MascotEnded :
          mascot'[AnyMascot].sv[n] = FrameOf(mascot[AnyMascot].sv[n], 0)
    /\ \E n \in MascotEnded : MascotFrame(AnyMascot, n)

PaxtonFinished ==
    /\ \A n \in PaxtonEnded : paxton'.sv[n] = FrameOf(paxton.sv[n], 0)
    /\ \E n \in PaxtonEnded : PaxtonFrame(n)

SameExcept(a, b, n) ==
    /\ \A m \in PaxtonValues \ {n} : a.sv[m] = b.sv[m]
    /\ a.timers = b.timers
    /\ a.calls = b.calls

\* A handler in which startAnimation fails on the value f.on goes on as
\* the same handler without the fault does.
GoesOn(failed, ok, f) ==
    /\ ~failed.thrown
    /\ failed.log \subseteq {"Animation error:"}
    /\ SameExcept(failed, ok, f.on)

\* The values performJump and the effect pass to startAnimation.
JumpStarts == {"jumpHeight", "floatY", "armWave", "headTilt"}
EffectStarts == {"bodyBounce", "legSwing", "armWave", "mouthSmile",
                 "headTilt", "eyeBlink"}

\* C7: in every reachable state, a startAnimation call that throws (in
\* cancelAnimation or in the assignment) returns normally, warns
\* 'Animation error:', changes no shared value but the one passed and no
\* timer; and every handler that can run in the state (performJump,
\* randomizeArmMovements, happyWave, changeGaze, the effect of a mood
\* change), when a startAnimation call of its throws, does everything else
\* it does without the fault.
C7_StartAnimationContainsErrors ==
    \A p \in {Begin(paxton)} :
        /\ \A f \in StartFaults :
            \A failed \in {startAnimation(p, f.on, Swing(12, 0), f)} :
              /\ ~failed.thrown
              /\ failed.log = {"Animation error:"}
              /\ SameExcept(failed, p, f.on)
              /\ failed.sv[f.on].val = p.sv[f.on].val
        /\ p.life = "mounted" =>
              \A onPress \in BOOLEAN :
              \A ok \in {performJump(p, onPress, NoFault)} :
              \A f \in {g \in StartFaults : g.on \in JumpStarts} :
              \A failed \in {performJump(p, onPress, f)} :
                  GoesOn(failed, ok, f)
        /\ p.timers["arm"] > 0 =>
              \A arm \in ArmChoices :
              \A ok \in {randomizeArmMovements(p, arm, NoFault)} :
              \A f \in {g \in StartFaults : g.on = "armWave"} :
              \A failed \in {randomizeArmMovements(p, arm, f)} :
                  GoesOn(failed, ok, f)
        /\ p.timers["happyWave"] > 0 =>
              \A wave \in WaveChoices :
              \A ok \in {happyWave(p, wave, NoFault)} :
              \A f \in {g \in StartFaults : g.on = "armWave"} :
              \A failed \in {happyWave(p, wave, f)} :
                  GoesOn(failed, ok, f)
        /\ p.timers["gaze"] > 0 =>
              \A ok \in {changeGaze(p, NoFault)} :
              \A f \in {g \in StartFaults : g.on = "eyeBlink"} :
              \A failed \in {changeGaze(p, f)} :
                  GoesOn(failed, ok, f)
        /\ p.life = "mounted" /\ p.renders < MaxRenders =>
              \A c \in {PaxtonCleanup(p)} :
              \A mood \in PaxtonMoods \ {p.mood} :
              \A arm \in ArmChoices, wave \in WaveChoices :
              \A ok \in {PaxtonEffect(c, mood, arm, wave, NoFault)} :
              \A f \in {g \in StartFaults : g.on \in EffectStarts} :
              \A failed \in {PaxtonEffect(c, mood, arm, wave, f)} :
                  GoesOn(failed, ok, f)

\* C7 witness: a press in which startAnimation(armWave, ...) threw has
\* warned, has still started the head tilt and has called onPress.
C7_Witness ==
    /\ paxton.life = "mounted"
    /\ paxton.log = {"Animation error:"}
    /\ paxton.calls = 1
    /\ paxton.sv["headTilt"].anim = JumpAnimation("headTilt")
    /\ paxton.sv["armWave"].anim = NoAnim

\* C8: the module-level sample data never change, and a mount of
\* HabitsScreen or ProfileScreen starts from exactly the sample values.
C8_SampleDataUntouched ==
    /\ [](moduleData = SampleData)
    /\ [][HabitsMount =>
            HabitValues(habitsScreen', moduleData') = initialHabits]_vars
    /\ [][ProfileMount =>
            /\ PreferenceValues(profileScreen', moduleData')
                    = philosophicalPreferences
            /\ SettingValues(profileScreen', moduleData') = initialSettings]_vars

\* C8 witness: HabitsScreen has just been mounted again after toggles in an
\* earlier mount, and shows the sample values.
C8_Witness ==
    /\ everToggled
    /\ habitsScreen.mounted
    /\ \A id \in HabitIds : habitsScreen.habits[id] = <<>>
    /\ HabitValues(habitsScreen, moduleData) = initialHabits

\* C9: a mounted character has at most one blink timer chain alive, a
\* MascotCharacter and a PaxtonCharacter alike.
C9_OneBlinkChain ==
    /\ mascot[AnyMascot].life = "mounted" => mascot[AnyMascot].timers <= 1
    /\ paxton.life = "mounted" =>
            paxton.timers["blinkFull"] + paxton.timers["blinkMicro"] <= 1

\* The pending timers of a PaxtonCharacter.
PendingTimers(p) ==
    p.timers["blinkFull"] + p.timers["blinkMicro"] + p.timers["arm"]
    + p.timers["happyWave"] + p.timers["gaze"]

\* C10: once PaxtonCharacter has unmounted, a timer callback that fires
\* starts no animation and schedules no timer: the animations stay as they
\* are and one pending timer fewer is left.
C10_QuietAfterUnmount ==
    [][paxton.life = "unmounted" /\ paxton' # paxton /\ ~PxFrame =>
          /\ \A n \in PaxtonValues : paxton'.sv[n].anim = paxton.sv[n].anim
          /\ PendingTimers(paxton') < PendingTimers(paxton)]_vars

\* C11: once a MascotCharacter has unmounted, no step writes one of its
\* animation values or schedules a timer (a blink callback that fires only
\* takes its timer away), and its pending timers eventually reach zero.
C11_SilentAfterUnmount ==
    /\ [][mascot[AnyMascot].life = "unmounted" =>
            /\ mascot'[AnyMascot].sv = mascot[AnyMascot].sv
            /\ mascot'[AnyMascot].timers <= mascot[AnyMascot].timers]_vars
    /\ (mascot[AnyMascot].life = "unmounted")
            ~> (mascot[AnyMascot].life = "unmounted"
                /\ mascot[AnyMascot].timers = 0)

\* C11 witness: an instance that had blink timers pending from two moods
\* has unmounted and all its callbacks have fired.
C11_Witness ==
    /\ mascot[AnyMascot].life = "unmounted"
    /\ mascot[AnyMascot].mood = "thinking"
    /\ mascot[AnyMascot].prop = "thinking"
    /\ mascot[AnyMascot].timers = 0
    /\ mascot[AnyMascot].sv["wingFlap"].val = -50

\* The arm of a shy character: the protective-position animation (target
\* 25) is running or has brought the arm there.
ShyArm(p) ==
    \/ p.sv["armWave"].anim = withTiming(250)
    \/ p.sv["armWave"] = [val |-> 250, anim |-> NoAnim]

\* The arm of an excited character: the repeating wave (target 30) runs.
ExcitedArm(p) == p.sv["armWave"].anim = withRepeat(withTiming(300))

\* C12: while a mounted PaxtonCharacter stays shy (excited) and is not
\* pressed, no step takes armWave away from the protective-position
\* animation (from the repeating arm wave).
C12_MoodArmKept ==
    [][(/\ paxton.life = "mounted"
        /\ paxton'.life = "mounted"
        /\ paxton'.mood = paxton.mood
        /\ \/ paxton.mood = "shy" /\ ShyArm(paxton) /\ ~ShyArm(paxton')
           \/ paxton.mood = "excited" /\ ExcitedArm(paxton)
                    /\ ~ExcitedArm(paxton'))
       => PxPress]_vars

\* C13: a happyWave callback that fires while the mood of a mounted
\* PaxtonCharacter is not happy leaves armWave alone, and a changeGaze
\* callback that fires while the mood is not thinking leaves eyeBlink alone.
C13_LoopsFollowMood ==
    [][/\ (paxton.life = "mounted" /\ paxton.mood # "happy" /\ PxWaveTimer)
            => paxton'.sv["armWave"] = paxton.sv["armWave"]
       /\ (paxton.life = "mounted" /\ paxton.mood # "thinking" /\ PxGazeTimer)
            => paxton'.sv["eyeBlink"] = paxton.sv["eyeBlink"]]_vars

\* C14: in a mounted MascotCharacter every value the current mood does not
\* animate (the blink and the body bounce belong to every mood) is at its
\* rest value 0.
C14_PoseFollowsMood ==
    mascot[AnyMascot].life = "mounted" =>
        \A n \in MascotValues \ (MoodRepeats(mascot[AnyMascot].mood)
                                    \cup {"bodyBounce", "eyeBlink"}) :
            mascot[AnyMascot].sv[n].val = 0

\* C15: a press in which nothing throws leaves on each of jumpHeight,
\* armWave, headTilt and floatY a finite sequence whose last target is 0 in
\* place of what ran there, calls onPress once when the parent provides it
\* and not at all otherwise, and lets no error out; the engine then brings
\* each of the four values to 0.
C15_PressJumps ==
    [][\A onPress \in BOOLEAN :
          PaxtonPress(onPress, NoFault) =>
            /\ \A n \in Range(JumpValues) :
                  /\ paxton'.sv[n].val = paxton.sv[n].val
                  /\ paxton'.sv[n].anim.kind = "finite"
                  /\ paxton'.sv[n].anim.targets[Len(paxton'.sv[n].anim.targets)] = 0
                  /\ FrameOf(paxton'.sv[n], paxton'.sv[n].val) = useSharedValue(0)
            /\ \A n \in PaxtonValues \ Range(JumpValues) :
                  paxton'.sv[n] = paxton.sv[n]
            /\ paxton'.calls = (IF onPress THEN 1 ELSE 0)
            /\ paxton'.log = {}
            /\ ~paxton'.escaped]_vars

\* C15 witness: an excited character, whose arm was waving, has been
\* pressed with onPress provided, and the jump has run to its end.
C15_Witness ==
    /\ paxton.life = "mounted"
    /\ paxton.mood = "excited"
    /\ paxton.calls = 1
    /\ paxton.log = {}
    /\ \A n \in Range(JumpValues) : paxton.sv[n] = useSharedValue(0)

\* C16: when performJump has failed, the error has not left the handler and
\* jumpHeight, armWave and headTilt are at their rest (initial) value 0.
C16_JumpFailureResets ==
    "Jump animation error:" \in paxton.log =>
        /\ ~paxton.escaped
        /\ paxton.sv["jumpHeight"] = useSharedValue(0)
        /\ paxton.sv["armWave"] = useSharedValue(0)
        /\ paxton.sv["headTilt"] = useSharedValue(0)

\* One of the sequences of the jump is still on its value.
JumpRuns(p) == \E n \in Range(JumpValues) : p.sv[n].anim = JumpAnimation(n)

\* headTilt and armWave are on the animation the mood prescribes, or at the
\* target that animation has brought them to.
MoodPose(p) ==
    CASE p.mood = "thinking" ->
            p.sv["headTilt"].anim =
                withRepeat(withSequence(<<withTiming(70), withTiming(30),
                                          withTiming(70)>>))
      [] p.mood = "excited" -> ExcitedArm(p)
      [] p.mood = "shy" ->
            /\ ShyArm(p)
            /\ \/ p.sv["headTilt"].anim = withTiming(80)
               \/ p.sv["headTilt"] = useSharedValue(80)
      [] OTHER -> TRUE

\* C17: when the last thing that happened to a mounted PaxtonCharacter is a
\* press whose jump sequences have all finished, headTilt and armWave are
\* again on the animation (or at the target) its mood prescribes.
C17_PressIsTransient ==
    (/\ paxton.life = "mounted"
     /\ paxton.calls = 1
     /\ paxton.log = {}
     /\ ~JumpRuns(paxton))
        => MoodPose(paxton)

\* C18: while a framework of N steps is selected, 0 <= currentStep <= N-1;
\* while the results are not shown responses has exactly currentStep
\* entries, and when they are shown it has exactly N.
C18_StepsAndResponses ==
    /\ decisions.selectedFramework # Null =>
          /\ 0 <= decisions.currentStep
          /\ decisions.currentStep
                <= Len(frameworks[decisions.selectedFramework].steps) - 1
          /\ decisions.showResults =>
                Len(decisions.responses)
                    = Len(frameworks[decisions.selectedFramework].steps)
    /\ ~decisions.showResults =>
          Len(decisions.responses) = decisions.currentStep

\* C18 witness: the results of a framework are shown with an answer to each
\* of its steps, and currentStep has stayed at the last step.
C18_Witness ==
    /\ decisions.showResults
    /\ decisions.selectedFramework = 3
    /\ decisions.currentStep = 3
    /\ decisions.responses = <<"r", "r", "r", "r">>

\* C19: the results appear only by a press of Next Step / Complete, and
\* only by the N-th one since the framework was selected (every press adds
\* one response, and nothing else adds any); once they are shown, the only
\* step that changes the screen is resetDecision.
C19_ResultsAfterNPresses ==
    [][/\ (~decisions.showResults /\ decisions'.showResults) =>
              /\ handleNextStep
              /\ Len(decisions'.responses)
                    = Len(frameworks[decisions.selectedFramework].steps)
       /\ handleNextStep =>
              Len(decisions'.responses) = Len(decisions.responses) + 1
       /\ (decisions'.responses # decisions.responses /\ ~handleNextStep) =>
              decisions'.responses = <<>>
       /\ (decisions.showResults /\ decisions' # decisions) =>
              /\ resetDecision
              /\ decisions'.selectedFramework = Null
              /\ ~decisions'.showResults]_vars

\* C19 witness: the results are shown after four presses, two of them with
\* an empty step input.
C19_Witness ==
    /\ ResultsShown
    /\ decisions.selectedFramework = 2
    /\ decisions.responses = <<"", "r", "", "r">>
    /\ decisions.mascotMood = "meditating"

\* C20: while the wisdom screen is mounted its mascot mood is 'meditating'
\* exactly when a philosophy is selected and 'thinking' otherwise, and the
\* header mascot has that mood; every philosophy card can be pressed, so the
\* selection can move to another philosophy, but no step takes it back to
\* none; Key Teachings is rendered exactly when a philosophy is selected and
\* shows the quotes of that philosophy only.
C20_WisdomMoodFollowsSelection ==
    /\ [](wisdom.mounted =>
            /\ wisdom.mascotMood =
                  (IF wisdom.selectedPhilosophy # Null THEN "meditating"
                   ELSE "thinking")
            /\ mascot[WisdomMascots.header].life = "mounted"
            /\ mascot[WisdomMascots.header].mood = wisdom.mascotMood
            /\ (mascot[WisdomMascots.teachings].life = "mounted")
                  <=> (wisdom.selectedPhilosophy # Null)
            /\ (KeyTeachings(wisdom) # <<>>)
                  <=> (wisdom.selectedPhilosophy # Null)
            /\ \A k \in DOMAIN KeyTeachings(wisdom) :
                  /\ KeyTeachings(wisdom)[k].text[1] = wisdom.selectedPhilosophy
                  /\ KeyTeachings(wisdom)[k]
                        = philosophers[wisdom.selectedPhilosophy].quotes[k]
            /\ \A id \in DOMAIN philosophers :
                  ENABLED handlePhilosophyPress(philosophers[id]))
    /\ [][(wisdom.mounted /\ wisdom'.mounted
              /\ wisdom.selectedPhilosophy # Null)
            => wisdom'.selectedPhilosophy # Null]_vars

\* C20 witness: a philosophy is selected; the header mascot has gone from
\* thinking to meditating (its wings stopped where the thinking flap had
\* brought them) and the Key Teachings mascot is mounted.
C20_Witness ==
    /\ wisdom.mounted
    /\ wisdom.selectedPhilosophy = 3
    /\ wisdom.mascotMood = "meditating"
    /\ mascot[WisdomMascots.header].mood = "meditating"
    /\ mascot[WisdomMascots.header].sv["wingFlap"].val = -50
    /\ mascot[WisdomMascots.teachings].life = "mounted"
    /\ Len(KeyTeachings(wisdom)) = 3

====
